---- MODULE Spec2Model ----
(***************************************************************************)
(* Model of ndoxx/toolz, source/pencel.cpp: the separable image resampler  *)
(* (ResampleImage24 and its bilinear kernels), the palette colour matcher  *)
(* (best_match) and the pencel driver (main); and of source/thext.cpp:     *)
(* the example sets of bitdiff (binary_string, Examples::insert).          *)
(***************************************************************************)
EXTENDS Integers, Sequences, FiniteSets, TLC

(***************************************************************************)
(* Single-precision arithmetic.  Every float the resampler computes is a   *)
(* non-negative dyadic rational; it is kept as [m, e], value m * 2^e, with *)
(* m odd (or m = 0, e = 0) and m < 2^24.  The operators round to nearest,  *)
(* ties to even, as the IEEE-754 binary32 operations of the build do.      *)
(* All intermediate integers stay below 2^31.                              *)
(***************************************************************************)
RECURSIVE BitLen(_)
BitLen(n) == IF n = 0 THEN 0 ELSE 1 + BitLen(n \div 2)

RECURSIVE Canon(_, _)
Canon(m, e) ==
    IF m = 0 THEN [m |-> 0, e |-> 0]
    ELSE IF m % 2 = 0 THEN Canon(m \div 2, e + 1)
    ELSE [m |-> m, e |-> e]

\* The float nearest to (n + d) * 2^e, where 0 <= d < 1 and d > 0 iff sticky;
\* a sticky n has at least 25 bits.
RoundNE(n, e, sticky) ==
    LET s == BitLen(n) - 24 IN
    IF s <= 0 THEN Canon(n, e)
    ELSE LET q    == n \div (2^s)
             r    == n % (2^s)
             half == 2^(s - 1)
             up   == \/ r > half
                     \/ r = half /\ (sticky \/ q % 2 = 1)
         IN  Canon(IF up THEN q + 1 ELSE q, e + s)

\* float(n) of an unsigned integer below 2^24: exact.
FromNat(n) == Canon(n, 0)

\* float(a) / float(b) for integers 0 <= a, 1 <= b < 64.
FDivNat(a, b) ==
    IF a = 0 THEN Canon(0, 0)
    ELSE LET k == 25 + BitLen(b) - BitLen(a)
             n == a * (2^k)
         IN  RoundNE(n \div b, 0 - k, n % b # 0)

\* float(n) * x for an integer 0 <= n < 256.
FMulNat(n, x) ==
    IF n = 0 \/ x.m = 0 THEN Canon(0, 0)
    ELSE LET mh == x.m \div 256
             ml == x.m % 256
             t  == n * mh + (n * ml) \div 256
         IN  IF t < 2^16 THEN Canon(n * x.m, x.e)
             ELSE LET s == BitLen(t) - 17
                  IN  RoundNE(n * mh * (2^(8 - s)) + (n * ml) \div (2^s),
                              x.e + s, (n * ml) % (2^s) # 0)

\* x - float(n) for an integer n <= x: exact.
FSubNat(x, n) ==
    IF x.e >= 0 THEN Canon(x.m * (2^x.e) - n, 0)
    ELSE Canon(x.m - n * (2^(0 - x.e)), x.e)

\* 1.0f - x for 0 <= x < 1 (x a multiple of 2^-30).
FOneMinus(x) ==
    IF x.m = 0 THEN Canon(1, 0)
    ELSE RoundNE(2^(0 - x.e) - x.m, x.e, FALSE)

\* x + y.
FAdd(x, y) ==
    IF x.m = 0 THEN y
    ELSE IF y.m = 0 THEN x
    ELSE LET xBig  == BitLen(x.m) + x.e >= BitLen(y.m) + y.e
             big   == IF xBig THEN x ELSE y
             small == IF xBig THEN y ELSE x
             E     == BitLen(big.m) + big.e - 26
             A     == big.m * (2^(big.e - E))
             d     == E - small.e
             B     == IF d <= 0 THEN small.m * (2^(0 - d))
                      ELSE IF d >= 25 THEN 0
                      ELSE small.m \div (2^d)
             st    == IF d <= 0 THEN FALSE
                      ELSE IF d >= 25 THEN TRUE
                      ELSE small.m % (2^d) # 0
         IN  RoundNE(A + B, E, st)

\* int32_t(x), uint8_t(x): truncation toward zero.
FTrunc(x) ==
    IF x.e >= 0 THEN x.m * (2^x.e)
    ELSE IF 0 - x.e > 30 THEN 0
    ELSE x.m \div (2^(0 - x.e))

(***************************************************************************)
(* Memory.  A pointer is [null, bytes]: bytes maps byte offsets 0..n-1 to  *)
(* uint8_t values; -1 marks a byte of new uint8_t[n] not yet written.      *)
(***************************************************************************)
NullPtr == [null |-> TRUE, bytes |-> <<>>]

Mem(f) == [null |-> FALSE, bytes |-> f]

\* std::string* errors: NoString is errors == nullptr.
NoString == "<nullptr>"

BLOCK_OFFSET_RGB24(width, x, y) == (3 * width) * y + 3 * x

clip_range(input, low, high) ==
    IF input < low THEN low ELSE IF input > high THEN high ELSE input

KernelTypes == {"KernelTypeUnknown", "KernelTypeBilinear", "KernelTypeLanczos3"}

\* The result of a kernel call: ok is the return value, out the 3 bytes stored
\* through output (none on failure), at the (x, y) of the two pixels read.
KernelFail == [ok |-> FALSE, out |-> <<>>, at |-> <<>>, f_delta |-> Canon(0, 0)]

Lerp_round(p0, p1, f_delta) ==
    FTrunc(FAdd(FAdd(FMulNat(p0, FOneMinus(f_delta)), FMulNat(p1, f_delta)),
                Canon(1, -1)))

\* output = uint8_t(p0 * (1.0f - f_delta) + p1 * f_delta)
Lerp(p0, p1, f_delta) ==
    FTrunc(FAdd(FMulNat(p0, FOneMinus(f_delta)), FMulNat(p1, f_delta)))

SampleKernelBilinearH(from, width, height, f_x, f_y, output) ==
    IF from.null \/ width = 0 \/ height = 0 \/ f_x.m < 0 \/ f_y.m < 0 \/ output.null
    THEN KernelFail
    ELSE LET sample_x == FTrunc(f_x)
             sample_y == FTrunc(f_y)
             f_delta  == FSubNat(f_x, sample_x)
             x0 == clip_range(sample_x, 0, width - 1)
             x1 == clip_range(sample_x + 1, 0, width - 1)
             y  == clip_range(sample_y, 0, height - 1)
             p0 == BLOCK_OFFSET_RGB24(width, x0, y)
             p1 == BLOCK_OFFSET_RGB24(width, x1, y)
         IN  [ok |-> TRUE,
              out |-> [c \in 1..3 |->
                         Lerp(from.bytes[p0 + c - 1], from.bytes[p1 + c - 1], f_delta)],
              at |-> <<<<x0, y>>, <<x1, y>>>>,
              f_delta |-> f_delta]

\* The vertical kernel with the test of f_y turned round: it fails when f_y > 0.
SampleKernelBilinearV_strict(from, width, height, f_x, f_y, output) ==
    IF from.null \/ width = 0 \/ height = 0 \/ f_x.m < 0 \/ f_y.m > 0 \/ output.null
    THEN KernelFail
    ELSE LET sample_x == FTrunc(f_x)
             sample_y == FTrunc(f_y)
             f_delta  == FSubNat(f_y, sample_y)
             x  == clip_range(sample_x, 0, width - 1)
             y0 == clip_range(sample_y, 0, height - 1)
             y1 == clip_range(sample_y + 1, 0, height - 1)
             p0 == BLOCK_OFFSET_RGB24(width, x, y0)
             p1 == BLOCK_OFFSET_RGB24(width, x, y1)
         IN  [ok |-> TRUE,
              out |-> [c \in 1..3 |->
                         Lerp(from.bytes[p0 + c - 1], from.bytes[p1 + c - 1], f_delta)],
              at |-> <<<<x, y0>>, <<x, y1>>>>,
              f_delta |-> f_delta]

SampleKernelBilinearV(from, width, height, f_x, f_y, output) ==
    IF from.null \/ width = 0 \/ height = 0 \/ f_x.m < 0 \/ f_y.m < 0 \/ output.null
    THEN KernelFail
    ELSE LET sample_x == FTrunc(f_x)
             sample_y == FTrunc(f_y)
             f_delta  == FSubNat(f_y, sample_y)
             x  == clip_range(sample_x, 0, width - 1)
             y0 == clip_range(sample_y, 0, height - 1)
             y1 == clip_range(sample_y + 1, 0, height - 1)
             p0 == BLOCK_OFFSET_RGB24(width, x, y0)
             p1 == BLOCK_OFFSET_RGB24(width, x, y1)
         IN  [ok |-> TRUE,
              out |-> [c \in 1..3 |->
                         Lerp(from.bytes[p0 + c - 1], from.bytes[p1 + c - 1], f_delta)],
              at |-> <<<<x, y0>>, <<x, y1>>>>,
              f_delta |-> f_delta]

SampleKernelBilinear(from, width, height, direction, f_x, f_y, output) ==
    CASE direction = "KernelDirectionHorizontal" ->
            SampleKernelBilinearH(from, width, height, f_x, f_y, output)
      [] direction = "KernelDirectionVertical" ->
            SampleKernelBilinearV(from, width, height, f_x, f_y, output)
      [] OTHER -> KernelFail

SampleKernel_fallback(from, width, height, direction, f_x, f_y, ktype, output) ==
    SampleKernelBilinear(from, width, height, direction, f_x, f_y, output)

SampleKernel(from, width, height, direction, f_x, f_y, ktype, output) ==
    IF ktype = "KernelTypeBilinear"
    THEN SampleKernelBilinear(from, width, height, direction, f_x, f_y, output)
    ELSE KernelFail

\* memcpy(d, s, n): the first n bytes of d replaced by those of s.
memcpy(d, s, n) == [k \in DOMAIN d |-> IF k < n THEN s[k] ELSE d[k]]

\* The 3 bytes of out stored at byte offset off of mem.
Store3(mem, off, out) ==
    [k \in DOMAIN mem |-> IF k >= off /\ k < off + 3 THEN out[k - off + 1] ELSE mem[k]]

(***************************************************************************)
(* State of one ResampleImage24 call.                                      *)
(***************************************************************************)
VARIABLES
    pc,             \* "idle", "entry", "hpass", "vpass", "returned"
    src, src_width, src_height,
    dst, dst_width, dst_height,
    type,           \* KernelType
    errors,         \* *errors, or NoString
    buffer,         \* the intermediate buffer (NullPtr before it is allocated)
    h_ratio, v_ratio,
    i, j,           \* the loop counters of the running pass
    ret,            \* the return value, once pc = "returned"
    sample,         \* the last kernel call: its arguments and its result
    samples         \* the number of kernel calls made so far

rvars == <<pc, src, src_width, src_height, dst, dst_width, dst_height, type,
           errors, buffer, h_ratio, v_ratio, i, j, ret, sample, samples>>

(***************************************************************************)
(* State of one best_match call; palette is also main's palette.           *)
(***************************************************************************)
VARIABLES
    bm_pc,          \* "idle", "scan", "done"
    color,          \* the colour queried
    palette,        \* the sequence of PencilInfo
    metric,         \* math::cmetric_distance, as a table over the pairs compared
    ii,             \* the loop counter
    result          \* the running ColorMatchResult

bvars == <<bm_pc, color, metric, ii, result>>

(***************************************************************************)
(* State of the pencel driver, main.                                       *)
(***************************************************************************)
VARIABLES
    d_pc,           \* "idle", "palette", "decoded", "resampling", "match", "done",
                    \* "exited", "crashed"
    file,           \* the lines of ../data/pal_cp.txt, each a sequence of characters
    ifs,            \* the lines not read yet
    klog,           \* the messages logged as errors (KLOGE)
    decoded,        \* the Image decode_png_file returned, and lodepng's error code
    row,            \* the row counter of the output loop
    calls           \* the calls made so far: decode, resample, best_match

dvars == <<d_pc, file, ifs, klog, decoded, row, calls>>

(***************************************************************************)
(* State of one Examples object of bitdiff.                                *)
(***************************************************************************)
VARIABLES
    example_,       \* std::vector<binary_string>: a sequence of sequences of BOOLEAN
    sims_,          \* binary_string
    example_size_,  \* size_t
    e_pc,           \* "ready", or "aborted" once an insert call has not returned
    call            \* the last insert call: its return value and the members before it

evars == <<example_, sims_, example_size_, e_pc, call>>

vars == <<rvars, bvars, palette, dvars, evars>>

NoSample == [pass |-> "none", i |-> 0, j |-> 0, width |-> 0, height |-> 0,
             f_x |-> Canon(0, 0), f_y |-> Canon(0, 0), p0 |-> <<>>, p1 |-> <<>>,
             res |-> KernelFail]

InvalidParameters_noType ==
    \/ src.null \/ dst.null
    \/ src_width = 0 \/ src_height = 0 \/ dst_width = 0 \/ dst_height = 0

\* if(!src || !dst || !src_width || !src_height || !dst_width || !dst_height
\*    || type == KernelTypeUnknown)
InvalidParameters ==
    \/ src.null \/ dst.null
    \/ src_width = 0 \/ src_height = 0 \/ dst_width = 0 \/ dst_height = 0
    \/ type = "KernelTypeUnknown"

\* The message stored in *errors when a kernel call of the pass fails.
FailureMessage_generic(pass) == "Failure during resample operation."

FailureMessage(pass) ==
    IF pass = "horizontal" THEN "Failure during horizontal resample operation."
    ELSE "Failure during vertical resample operation."

dst_row_pitch == 3 * dst_width
buffer_size == dst_row_pitch * src_height

dst_image_size_pixels == dst_width * dst_height

dst_image_size == dst_row_pitch * dst_height

\* The ratio with the guard of the one-pixel destination left out of account.
Ratio_zero(srcExtent, dstExtent) ==
    IF 1 = dstExtent THEN Canon(0, 0)
    ELSE FDivNat(srcExtent - 1, dstExtent - 1)

\* (1 == dst_width ? 1.0f : (float(src_width) - 1) / float(dst_width - 1)), and the
\* same for the heights.  float(src_width) - 1 is exact.
Ratio(srcExtent, dstExtent) ==
    IF 1 = dstExtent THEN Canon(1, 0)
    ELSE FDivNat(srcExtent - 1, dstExtent - 1)

\* ResampleImage24 from its entry to the start of the horizontal pass.
Enter ==
    /\ pc = "entry"
    /\ IF InvalidParameters
       THEN /\ errors' = IF errors # NoString
                         THEN "Invalid parameter passed to ResampleImage24."
                         ELSE errors
            /\ ret' = FALSE
            /\ pc' = "returned"
            /\ UNCHANGED <<dst, buffer, h_ratio, v_ratio>>
       ELSE IF src_width = dst_width /\ src_height = dst_height
       THEN /\ dst' = Mem(memcpy(dst.bytes, src.bytes, dst_image_size))
            /\ ret' = TRUE
            /\ pc' = "returned"
            /\ UNCHANGED <<errors, buffer, h_ratio, v_ratio>>
       ELSE /\ buffer' = Mem([k \in 0..(buffer_size - 1) |-> -1])
            /\ h_ratio' = Ratio(src_width, dst_width)
            /\ v_ratio' = Ratio(src_height, dst_height)
            /\ pc' = "hpass"
            /\ UNCHANGED <<dst, errors, ret>>
    /\ i' = 0 /\ j' = 0
    /\ UNCHANGED <<src, src_width, src_height, dst_width, dst_height, type,
                   sample, samples>>
    /\ UNCHANGED <<bvars, palette, dvars, evars>>

\* The horizontal pass ending with the first row of the intermediate buffer.
HPassLast_row == ~(i + 1 < dst_width)

\* for(j = 0; j < src_height; j++) for(i = 0; i < dst_width; i++): the sample (i, j)
\* is the last one of the horizontal pass.
HPassLast == ~(i + 1 < dst_width) /\ ~(j + 1 < src_height)

\* One iteration of the horizontal pass: the sample (i, j) of the intermediate buffer.
HSample ==
    /\ pc = "hpass"
    /\ LET f_x == FMulNat(i, h_ratio)
           f_y == FromNat(j)
           res == SampleKernel(src, src_width, src_height, "KernelDirectionHorizontal",
                               f_x, f_y, type, buffer)
       IN  /\ sample' = [pass |-> "horizontal", i |-> i, j |-> j,
                         width |-> src_width, height |-> src_height,
                         f_x |-> f_x, f_y |-> f_y,
                         p0 |-> IF res.ok
                                THEN [c \in 1..3 |-> src.bytes[BLOCK_OFFSET_RGB24(
                                        src_width, res.at[1][1], res.at[1][2]) + c - 1]]
                                ELSE <<>>,
                         p1 |-> IF res.ok
                                THEN [c \in 1..3 |-> src.bytes[BLOCK_OFFSET_RGB24(
                                        src_width, res.at[2][1], res.at[2][2]) + c - 1]]
                                ELSE <<>>,
                         res |-> res]
           /\ samples' = samples + 1
           /\ IF ~res.ok
              THEN /\ errors' = IF errors # NoString
                                THEN FailureMessage("horizontal")
                                ELSE errors
                   /\ ret' = FALSE
                   /\ pc' = "returned"
                   /\ UNCHANGED <<buffer, i, j>>
              ELSE /\ buffer' = Mem(Store3(buffer.bytes,
                                           BLOCK_OFFSET_RGB24(dst_width, i, j), res.out))
                   /\ IF HPassLast THEN i' = 0 /\ j' = 0 /\ pc' = "vpass"
                      ELSE IF i + 1 < dst_width THEN i' = i + 1 /\ j' = j /\ pc' = pc
                      ELSE i' = 0 /\ j' = j + 1 /\ pc' = pc
                   /\ UNCHANGED <<errors, ret>>
    /\ UNCHANGED <<src, src_width, src_height, dst, dst_width, dst_height, type,
                   h_ratio, v_ratio>>
    /\ UNCHANGED <<bvars, palette, dvars, evars>>

\* One iteration of the vertical pass: the sample (i, j) of the destination; after
\* the last one the function returns true.
VSample ==
    /\ pc = "vpass"
    /\ LET f_x == FromNat(i)
           f_y == FMulNat(j, v_ratio)
           res == SampleKernel(buffer, dst_width, src_height, "KernelDirectionVertical",
                               f_x, f_y, type, dst)
       IN  /\ sample' = [pass |-> "vertical", i |-> i, j |-> j,
                         width |-> dst_width, height |-> src_height,
                         f_x |-> f_x, f_y |-> f_y,
                         p0 |-> IF res.ok
                                THEN [c \in 1..3 |-> buffer.bytes[BLOCK_OFFSET_RGB24(
                                        dst_width, res.at[1][1], res.at[1][2]) + c - 1]]
                                ELSE <<>>,
                         p1 |-> IF res.ok
                                THEN [c \in 1..3 |-> buffer.bytes[BLOCK_OFFSET_RGB24(
                                        dst_width, res.at[2][1], res.at[2][2]) + c - 1]]
                                ELSE <<>>,
                         res |-> res]
           /\ samples' = samples + 1
           /\ IF ~res.ok
              THEN /\ errors' = IF errors # NoString
                                THEN FailureMessage("vertical")
                                ELSE errors
                   /\ ret' = FALSE
                   /\ pc' = "returned"
                   /\ UNCHANGED <<dst, i, j>>
              ELSE /\ dst' = Mem(Store3(dst.bytes,
                                        BLOCK_OFFSET_RGB24(dst_width, i, j), res.out))
                   /\ IF i + 1 < dst_width
                      THEN i' = i + 1 /\ j' = j /\ pc' = pc /\ ret' = ret
                      ELSE IF j + 1 < dst_height
                      THEN i' = 0 /\ j' = j + 1 /\ pc' = pc /\ ret' = ret
                      ELSE i' = i /\ j' = j /\ pc' = "returned" /\ ret' = TRUE
                   /\ UNCHANGED errors
    /\ UNCHANGED <<src, src_width, src_height, buffer, dst_width, dst_height, type,
                   h_ratio, v_ratio>>
    /\ UNCHANGED <<bvars, palette, dvars, evars>>

(***************************************************************************)
(* best_match.                                                             *)
(***************************************************************************)
\* std::numeric_limits<float>::infinity(); every distance is a natural number.
Infinity == -1

\* d < distance, for a finite d.
Closer(d, distance) == distance = Infinity \/ d < distance

\* ColorMatchResult result;
NoMatch == [index |-> 0, heavy |-> TRUE, distance |-> Infinity]

cmetric_distance(c1, c2) == metric[<<c1, c2>>]

Candidate_orEqual(res, index, heavy, d) ==
    IF Closer(d, res.distance) \/ d = res.distance
    THEN [index |-> index, heavy |-> heavy, distance |-> d]
    ELSE res

\* if(d < result.distance) result = {index, heavy, d};
Candidate(res, index, heavy, d) ==
    IF Closer(d, res.distance)
    THEN [index |-> index, heavy |-> heavy, distance |-> d]
    ELSE res

ScanEntry_heavyOnly(res, index, c, info) ==
    Candidate(res, index, TRUE, cmetric_distance(c, info.heavy_trace))

\* The body of the loop of best_match for the entry info = palette[index].
ScanEntry(res, index, c, info) ==
    LET dh == cmetric_distance(c, info.heavy_trace)
        dl == cmetric_distance(c, info.light_trace)
    IN  Candidate(Candidate(res, index, TRUE, dh), index, FALSE, dl)

\* One iteration of the loop; palette[ii] of the code is palette[ii + 1] here.
MatchIter ==
    /\ bm_pc = "scan"
    /\ ii < Len(palette)
    /\ result' = ScanEntry(result, ii, color, palette[ii + 1])
    /\ ii' = ii + 1
    /\ UNCHANGED <<bm_pc, color, metric, palette, rvars, dvars, evars>>

\* return result;
MatchReturn ==
    /\ bm_pc = "scan"
    /\ ~(ii < Len(palette))
    /\ bm_pc' = "done"
    /\ UNCHANGED <<color, metric, ii, result, palette, rvars, dvars, evars>>

(***************************************************************************)
(* main.  A line of the palette file is a sequence of characters; getline  *)
(* and strtol are modelled on it.                                          *)
(***************************************************************************)
HexDigits ==
    [c \in {"0", "1", "2", "3", "4", "5", "6", "7", "8", "9",
            "a", "b", "c", "d", "e", "f"} |->
        CASE c = "0" -> 0 [] c = "1" -> 1 [] c = "2" -> 2 [] c = "3" -> 3
          [] c = "4" -> 4 [] c = "5" -> 5 [] c = "6" -> 6 [] c = "7" -> 7
          [] c = "8" -> 8 [] c = "9" -> 9 [] c = "a" -> 10 [] c = "b" -> 11
          [] c = "c" -> 12 [] c = "d" -> 13 [] c = "e" -> 14 [] c = "f" -> 15]

\* std::getline(linestream, token, ' ') with the stream at position pos of line:
\* the characters up to the next ' ' or the end; next is the position after the ' '.
\* On an exhausted stream the token is empty.
getline(line, pos) ==
    LET stops == {k \in pos..Len(line) : line[k] = " "}
        stop  == IF stops = {} THEN Len(line) + 1
                 ELSE CHOOSE k \in stops : \A l \in stops : k <= l
    IN  [token |-> SubSeq(line, pos, stop - 1), next |-> stop + 1]

\* The number of leading hexadecimal digits of str.
RECURSIVE DigitRun(_)
DigitRun(str) ==
    IF str = <<>> \/ Head(str) \notin DOMAIN HexDigits THEN 0
    ELSE 1 + DigitRun(Tail(str))

RECURSIVE HexValue(_, _)
HexValue(str, acc) ==
    IF str = <<>> THEN acc ELSE HexValue(Tail(str), 16 * acc + HexDigits[Head(str)])

\* strtol(str, &p, 16) for a str without white space, sign or 0x prefix: n is the
\* value of the leading digits (0 when there is none) and p the rest of str.
strtol(str) ==
    LET k == DigitRun(str)
    IN  [n |-> HexValue(SubSeq(str, 1, k), 0), p |-> SubSeq(str, k + 1, Len(str))]

\* The three tokens of a line: info.name, sheavy, slight.
LineTokens(line) ==
    LET name   == getline(line, 1)
        sheavy == getline(line, name.next)
        slight == getline(line, sheavy.next)
    IN  [name |-> name.token, sheavy |-> sheavy.token, slight |-> slight.token]

\* One iteration of while(std::getline(ifs, line)): the next line of the file.
ReadLine ==
    /\ d_pc = "palette"
    /\ ifs # <<>>
    /\ LET t  == LineTokens(Head(ifs))
           nh == strtol(t.sheavy)
           nl == strtol(t.slight)
       IN  IF nh.p # <<>>
           THEN /\ klog' = Append(klog, <<"Invalid color value: ", t.sheavy>>)
                /\ d_pc' = "exited"
                /\ UNCHANGED palette
           ELSE IF nl.p # <<>>
           THEN /\ klog' = Append(klog, <<"Invalid color value: ", t.slight>>)
                /\ d_pc' = "exited"
                /\ UNCHANGED palette
           ELSE /\ palette' = Append(palette, [heavy_trace |-> nh.n,
                                               light_trace |-> nl.n,
                                               name |-> t.name])
                /\ UNCHANGED <<klog, d_pc>>
    /\ ifs' = Tail(ifs)
    /\ UNCHANGED <<file, decoded, row, calls, rvars, bvars, evars>>

\* main's target size.
width == 32
height == 32

\* What lodepng::decode can hand back through decode_png_file: on success the
\* pixels and their extents; on an error no pixels (data() is null) and extents
\* that are whatever lodepng left in them.
DecodeOutcomes ==
    {[error |-> 0, pixels |-> Mem([k \in 0..5 |-> IF k < 3 THEN 0 ELSE 255]),
      width |-> 2, height |-> 1]}
    \cup {[error |-> e, pixels |-> NullPtr, width |-> w, height |-> w] :
            e \in {28, 78}, w \in {0, 7}}

\* The end of the palette loop and auto src = decode_png_file(...): an error is
\* logged, and the image is returned either way.
Decode ==
    /\ d_pc = "palette"
    /\ ifs = <<>>
    /\ \E outcome \in DecodeOutcomes :
        /\ decoded' = outcome
        /\ klog' = IF outcome.error # 0
                   THEN Append(klog, <<"[lodepng] decoder error ", outcome.error>>)
                   ELSE klog
    /\ calls' = [calls EXCEPT !.decode = @ + 1]
    /\ d_pc' = "decoded"
    /\ UNCHANGED <<file, ifs, row, palette, rvars, bvars, evars>>

\* img is sized and zero-filled, and ResampleImage24(src.pixels.data(), src.width,
\* src.height, img.pixels.data(), img.width, img.height, KernelTypeBilinear) is
\* entered; img.pixels is the dst of the call.
CallResample ==
    /\ d_pc = "decoded"
    /\ pc' = "entry"
    /\ src' = decoded.pixels
    /\ src_width' = decoded.width /\ src_height' = decoded.height
    /\ dst' = Mem([k \in 0..(width * height * 3 - 1) |-> 0])
    /\ dst_width' = width /\ dst_height' = height
    /\ type' = "KernelTypeBilinear"
    /\ errors' = NoString
    /\ ret' = FALSE
    /\ sample' = NoSample
    /\ samples' = 0
    /\ calls' = [calls EXCEPT !.resample = @ + 1]
    /\ d_pc' = "resampling"
    /\ UNCHANGED <<buffer, h_ratio, v_ratio, i, j>>
    /\ UNCHANGED <<file, ifs, klog, decoded, row, palette, bvars, evars>>

\* ResampleImage24 has returned; its result is not looked at.
ResampleReturn ==
    /\ d_pc = "resampling"
    /\ pc = "returned"
    /\ pc' = "idle"
    /\ d_pc' = "match"
    /\ row' = 0
    /\ UNCHANGED <<src, src_width, src_height, dst, dst_width, dst_height, type,
                   errors, buffer, h_ratio, v_ratio, i, j, ret, sample, samples>>
    /\ UNCHANGED <<file, ifs, klog, decoded, calls, palette, bvars, evars>>

\* One row of the output loop: best_match is called for each of its pixels and the
\* colour of the winning pencil is printed (the console is not part of the state).
\* With an empty palette, palette[bm.index] is read out of bounds: the program may
\* crash there or go on.
MatchRow ==
    /\ d_pc = "match"
    /\ row < height
    /\ calls' = [calls EXCEPT !.best_match = @ + width]
    /\ row' = row + 1
    /\ \E survives \in {s \in BOOLEAN : s \/ palette = <<>>} :
        d_pc' = IF ~survives THEN "crashed"
                ELSE IF row + 1 < height THEN "match"
                ELSE "done"
    /\ UNCHANGED <<file, ifs, klog, decoded, palette, rvars, bvars, evars>>

(***************************************************************************)
(* The calls explored: every source image of at most MaxSrcPixels pixels   *)
(* over Colors, every destination extent up to MaxDstExtent, null and      *)
(* zero-sized arguments included; and one wide upscale, 2x1 to WideDst x 2.*)
(***************************************************************************)
MaxSrcExtent == 3
MaxSrcPixels == 4
MaxDstExtent == 4

Colors == {<<0, 0, 0>>, <<255, 15, 128>>}

WideDst == {42}

\* The image of w x h pixels whose pixel n has colour a[n].
Image(a, w, h) == [k \in 0..(3 * w * h - 1) |-> a[k \div 3][(k % 3) + 1]]

Images(w, h) == {Image(a, w, h) : a \in [0..(w * h - 1) -> Colors]}

\* A destination of w x h pixels as the caller hands it over: every byte 170.
Blank(w, h) == [k \in 0..(3 * w * h - 1) |-> 170]

InitCall(sw, sh, dw, dh, simg, snull, dnull, t, e) ==
    /\ pc = "entry"
    /\ src = (IF snull THEN NullPtr ELSE Mem(simg))
    /\ src_width = sw /\ src_height = sh
    /\ dst = (IF dnull THEN NullPtr ELSE Mem(Blank(dw, dh)))
    /\ dst_width = dw /\ dst_height = dh
    /\ type = t
    /\ errors = e
    /\ buffer = NullPtr
    /\ h_ratio = Canon(0, 0) /\ v_ratio = Canon(0, 0)
    /\ i = 0 /\ j = 0
    /\ ret = FALSE
    /\ sample = NoSample
    /\ samples = 0

InitSmall ==
    \E sw \in 0..MaxSrcExtent, sh \in 0..MaxSrcExtent,
       dw \in 0..MaxDstExtent, dh \in 0..MaxDstExtent :
        /\ sw * sh <= MaxSrcPixels
        /\ \E simg \in Images(sw, sh), snull \in BOOLEAN, dnull \in BOOLEAN,
              t \in KernelTypes, e \in {NoString, ""} :
                InitCall(sw, sh, dw, dh, simg, snull, dnull, t, e)

InitWide ==
    \E dw \in WideDst, simg \in Images(2, 1), e \in {NoString, ""} :
        InitCall(2, 1, dw, 2, simg, FALSE, FALSE, "KernelTypeBilinear", e)

\* Examples() = default: no example, sims_ empty, example_size_ = 0.
NoCall == [made |-> FALSE, ret |-> "none", example |-> <<>>, sims |-> <<>>]

ExamplesDefault ==
    /\ example_ = <<>> /\ sims_ = <<>> /\ example_size_ = 0
    /\ e_pc = "ready" /\ call = NoCall

\* No best_match call and no driver is running.
MatchIdle ==
    /\ bm_pc = "idle" /\ color = 0 /\ metric = <<>> /\ ii = 0 /\ result = NoMatch

DriverIdle ==
    /\ d_pc = "idle" /\ file = <<>> /\ ifs = <<>> /\ klog = <<>>
    /\ decoded = [error |-> 0, pixels |-> NullPtr, width |-> 0, height |-> 0]
    /\ row = 0
    /\ calls = [decode |-> 0, resample |-> 0, best_match |-> 0]

ResampleIdle ==
    /\ pc = "idle"
    /\ src = NullPtr /\ src_width = 0 /\ src_height = 0
    /\ dst = NullPtr /\ dst_width = 0 /\ dst_height = 0
    /\ type = "KernelTypeUnknown"
    /\ errors = NoString
    /\ buffer = NullPtr
    /\ h_ratio = Canon(0, 0) /\ v_ratio = Canon(0, 0)
    /\ i = 0 /\ j = 0
    /\ ret = FALSE
    /\ sample = NoSample
    /\ samples = 0

\* The calls of ResampleImage24.
Init ==
    /\ InitSmall \/ InitWide
    /\ MatchIdle /\ palette = <<>> /\ DriverIdle /\ ExamplesDefault

Next == Enter \/ HSample \/ VSample

Spec == Init /\ [][Next]_vars

(***************************************************************************)
(* The calls of best_match explored: a palette of at most MaxPalette       *)
(* entries over MatchColors, and every table of distances up to MaxDist    *)
(* between the colour queried and those colours.                           *)
(***************************************************************************)
MaxPalette == 2
MaxDist == 2

MatchColors == {0, 255, 16777215}

Queries == {0, 255}

Palettes ==
    UNION {[1..n -> [heavy_trace : MatchColors, light_trace : MatchColors, name : {"p"}]] :
             n \in 0..MaxPalette}

MatchInit ==
    /\ bm_pc = "scan"
    /\ color \in Queries
    /\ palette \in Palettes
    /\ metric \in [{color} \X MatchColors -> 0..MaxDist]
    /\ ii = 0
    /\ result = NoMatch
    /\ ResampleIdle /\ DriverIdle /\ ExamplesDefault

MatchNext == MatchIter \/ MatchReturn

SpecMatch == MatchInit /\ [][MatchNext]_vars

(***************************************************************************)
(* The runs of main explored: a palette file of at most MaxLines lines,    *)
(* each a name followed by up to two colour tokens of at most MaxToken     *)
(* characters over TokenChars, and every outcome of the decoder.           *)
(***************************************************************************)
MaxLines == 1
MaxToken == 1

TokenChars == {"f", "g"}

Tokens == UNION {[1..n -> TokenChars] : n \in 0..MaxToken}

Lines ==
    {<<"n">>}
    \cup {<<"n", " ">> \o h : h \in Tokens}
    \cup {<<"n", " ">> \o h \o <<" ">> \o l : h \in Tokens, l \in Tokens}

Files == UNION {[1..n -> Lines] : n \in 0..MaxLines}

MainInit ==
    /\ d_pc = "palette"
    /\ file \in Files
    /\ ifs = file
    /\ klog = <<>>
    /\ decoded = [error |-> 0, pixels |-> NullPtr, width |-> 0, height |-> 0]
    /\ row = 0
    /\ calls = [decode |-> 0, resample |-> 0, best_match |-> 0]
    /\ palette = <<>>
    /\ ResampleIdle /\ MatchIdle /\ ExamplesDefault

MainNext ==
    \/ ReadLine \/ Decode \/ CallResample
    \/ Enter \/ HSample \/ VSample
    \/ ResampleReturn \/ MatchRow

SpecMain == MainInit /\ [][MainNext]_vars

(***************************************************************************)
(* bitdiff: binary_string and Examples (thext.cpp).  A std::string is a    *)
(* sequence of characters, a binary_string a sequence of BOOLEAN.          *)
(***************************************************************************)
\* binary_string::initialize: '0' is false, any other character is true.
initialize(input) == [k \in 1..Len(input) |-> input[k] # "0"]

\* binary_string::compare(A, B): ret has the size of A and ret[ii] = !(A[ii] ^ B[ii]).
\* When B is shorter than A (K_ASSERT compiled out) B[ii] is read past its end, and
\* that bit of the result is any value.
compare(A, B) ==
    {r \in [1..Len(A) -> BOOLEAN] :
        \A k \in 1..Len(A) : k <= Len(B) => r[k] = (A[k] = B[k])}

\* binary_string::operator&: ret has the size of *this and ret[ii] = str[ii] &&
\* other.str[ii].  other.str[ii] is read (past its end when other is shorter) only
\* where str[ii] is true.
operator_and(str, other) ==
    {r \in [1..Len(str) -> BOOLEAN] :
        \A k \in 1..Len(str) :
            IF k <= Len(other) THEN r[k] = (str[k] /\ other[k]) ELSE r[k] => str[k]}

MaxBits == 2
MaxExamples == 3

\* The characters of the lines inserted, and the lines.
BitChars == {"0", "1", "x"}

Strings == UNION {[1..n -> BitChars] : n \in 0..MaxBits}

\* Examples::insert(str).  Where K_ASSERT finds two sizes different, the call either
\* stops there (assertions compiled in, or the read past the end faults) or goes on
\* with the bits read past the end.
insert ==
    /\ e_pc = "ready"
    /\ Len(example_) < MaxExamples
    /\ \E str \in Strings :
        LET first == example_size_ = 0
            size  == IF first THEN Len(str) ELSE example_size_
            sims  == IF first THEN [k \in 1..Len(str) |-> TRUE] ELSE sims_
            done(r) == [made |-> TRUE, ret |-> r, example |-> example_, sims |-> sims_]
        IN  /\ example_size_' = size
            /\ IF Len(str) # size
               THEN /\ example_' = example_ /\ sims_' = sims
                    /\ e_pc' = e_pc /\ call' = done("false")
               ELSE /\ example_' = Append(example_, initialize(str))
                    /\ IF Len(example_') > 1
                       THEN LET A == example_'[Len(example_') - 1]
                                B == example_'[Len(example_')]
                            IN  \/ /\ Len(A) # Len(B)
                                   /\ sims_' = sims
                                   /\ e_pc' = "aborted" /\ call' = done("none")
                                \/ /\ \E c \in compare(A, B) : sims_' \in operator_and(sims, c)
                                   /\ e_pc' = e_pc /\ call' = done("true")
                       ELSE /\ sims_' = sims
                            /\ e_pc' = e_pc /\ call' = done("true")
    /\ UNCHANGED <<rvars, bvars, palette, dvars>>

\* The sequences of insert calls on a new Examples object.
ExamplesInit == ExamplesDefault /\ ResampleIdle /\ MatchIdle /\ palette = <<>> /\ DriverIdle

ExamplesNext == insert

SpecExamples == ExamplesInit /\ [][ExamplesNext]_vars

(***************************************************************************)
(* Properties of ResampleImage24, checked under Spec.                      *)
(***************************************************************************)
\* The arguments of the call are never assigned, so these describe the call.
ValidBuffers ==
    /\ ~src.null /\ ~dst.null
    /\ src_width >= 1 /\ src_height >= 1 /\ dst_width >= 1 /\ dst_height >= 1

SameExtents == src_width = dst_width /\ src_height = dst_height

DstUntouched == dst.null \/ dst.bytes = Blank(dst_width, dst_height)

\* C1 as stated: an identity resize (same extents, valid buffers) succeeds with any
\* kernel type, KernelTypeUnknown included, and leaves dst byte-identical to src.
C1_IdentityAnyKernelType ==
    (pc = "returned" /\ ValidBuffers /\ SameExtents)
        => (ret = TRUE /\ dst.bytes = src.bytes)

\* C1 amended: an identity resize with any kernel type other than KernelTypeUnknown
\* succeeds, leaves dst byte-identical to src, and performs no interpolation (no
\* kernel call, no intermediate buffer).
C1_IdentityResize ==
    (pc = "returned" /\ ValidBuffers /\ SameExtents /\ type # "KernelTypeUnknown")
        => /\ ret = TRUE
           /\ dst.bytes = src.bytes
           /\ samples = 0
           /\ buffer = NullPtr

C1_Witness ==
    /\ pc = "returned" /\ ValidBuffers /\ type = "KernelTypeLanczos3"
    /\ src_width = 2 /\ src_height = 2 /\ dst_width = 2 /\ dst_height = 2
    /\ ret = TRUE /\ dst.bytes = src.bytes
    /\ dst.bytes # Blank(2, 2)

Unimplemented == type \notin {"KernelTypeBilinear", "KernelTypeUnknown"}

\* C2 as stated: with an unimplemented kernel type and valid buffers the call
\* returns failure, whatever the extents.
C2_UnimplementedAlwaysFails ==
    (pc = "returned" /\ ValidBuffers /\ Unimplemented) => ret = FALSE

\* C2 amended: with an unimplemented kernel type, valid buffers and source extents
\* that differ from the destination extents, the call returns failure at its first
\* kernel call; no kernel call ever succeeds (no fallback to another kernel).
C2_UnimplementedKernel ==
    (ValidBuffers /\ Unimplemented)
        => /\ ~sample.res.ok
           /\ (pc = "returned" /\ ~SameExtents) => (ret = FALSE /\ samples = 1)

C2_Witness ==
    /\ pc = "returned" /\ ValidBuffers /\ type = "KernelTypeLanczos3"
    /\ src_width = 2 /\ src_height = 2 /\ dst_width = 3 /\ dst_height = 3
    /\ ret = FALSE /\ samples = 1

\* The precondition of ResampleImage24 is violated.
PreconditionViolated ==
    \/ src.null \/ dst.null
    \/ src_width = 0 \/ src_height = 0 \/ dst_width = 0 \/ dst_height = 0
    \/ type = "KernelTypeUnknown"

\* C3: on a null buffer, a zero extent or KernelTypeUnknown the call returns failure
\* at once (no pass is entered, no kernel call is made), *errors, when supplied, is
\* the invalid-parameter message, and neither dst nor an intermediate buffer is written.
C3_PreconditionCheck ==
    PreconditionViolated
        => /\ pc \in {"entry", "returned"}
           /\ samples = 0
           /\ buffer = NullPtr
           /\ DstUntouched
           /\ pc = "returned"
                => /\ ret = FALSE
                   /\ errors \in {NoString, "Invalid parameter passed to ResampleImage24."}

C3_Witness ==
    /\ pc = "returned" /\ ret = FALSE
    /\ ~src.null /\ ~dst.null
    /\ src_width = 2 /\ src_height = 1 /\ dst_width = 3 /\ dst_height = 2
    /\ type = "KernelTypeUnknown"
    /\ errors = "Invalid parameter passed to ResampleImage24."
    /\ dst.bytes = Blank(3, 2)

\* The last kernel call succeeded: what it read and wrote, in the terms of C4.
ActiveCoord == IF sample.pass = "horizontal" THEN sample.f_x ELSE sample.f_y
OrthoCoord == IF sample.pass = "horizontal" THEN sample.f_y ELSE sample.f_x
ActiveExtent == IF sample.pass = "horizontal" THEN sample.width ELSE sample.height
OrthoExtent == IF sample.pass = "horizontal" THEN sample.height ELSE sample.width
SampleBase == FTrunc(ActiveCoord)
SampleWeight == FSubNat(ActiveCoord, SampleBase)
SampleFrom == IF sample.pass = "horizontal" THEN src ELSE buffer

\* The pixel of the buffer read whose active-axis index is a and orthogonal index o.
PixelAt(a, o) ==
    LET x == IF sample.pass = "horizontal" THEN a ELSE o
        y == IF sample.pass = "horizontal" THEN o ELSE a
    IN  [c \in 1..3 |-> SampleFrom.bytes[(3 * sample.width) * y + 3 * x + c - 1]]

ReadsClamped ==
    LET a0 == clip_range(SampleBase, 0, ActiveExtent - 1)
        a1 == clip_range(SampleBase + 1, 0, ActiveExtent - 1)
        o  == clip_range(FTrunc(OrthoCoord), 0, OrthoExtent - 1)
    IN  /\ sample.p0 = PixelAt(a0, o)
        /\ sample.p1 = PixelAt(a1, o)

\* round(p0 * (1 - w) + p1 * w) in exact arithmetic, for w = m * 2^e in [0, 1).
RoundExact(p0, p1, w) ==
    IF w.m = 0 THEN p0
    ELSE LET F    == 0 - w.e
             a    == IF p1 >= p0 THEN p1 - p0 ELSE p0 - p1
             kh   == w.m \div 4096
             kl   == w.m % 4096
             t    == a * kh + (a * kl) \div 4096
             int  == IF F >= 12 THEN t \div (2^(F - 12)) ELSE (a * w.m) \div (2^F)
             frac == IF F >= 12 THEN (t % (2^(F - 12))) * 4096 + ((a * kl) % 4096)
                     ELSE (a * w.m) % (2^F)
         IN  IF p1 >= p0 THEN p0 + int + (IF 2 * frac >= 2^F THEN 1 ELSE 0)
             ELSE p0 - int - (IF 2 * frac > 2^F THEN 1 ELSE 0)

\* C4 as stated: a successful bilinear sample reads p0 and p1 at the clamped indices
\* and writes each channel as p0*(1-w) + p1*w rounded to nearest.
C4_BilinearRounded ==
    sample.res.ok
        => /\ ReadsClamped
           /\ \A c \in 1..3 :
                sample.res.out[c] = RoundExact(sample.p0[c], sample.p1[c], SampleWeight)

\* C4 amended: a successful bilinear sample reads p0 and p1 at the clamped indices
\* and writes each channel as the single-precision value of p0*(1-w) + p1*w
\* truncated toward zero, within 0..255.
C4_BilinearSample ==
    sample.res.ok
        => /\ ReadsClamped
           /\ \A c \in 1..3 :
                /\ sample.res.out[c] =
                     FTrunc(FAdd(FMulNat(sample.p0[c], FOneMinus(SampleWeight)),
                                 FMulNat(sample.p1[c], SampleWeight)))
                /\ sample.res.out[c] \in 0..255

C4_Witness ==
    /\ sample.res.ok /\ sample.pass = "vertical"
    /\ SampleWeight = Canon(1, -1)
    /\ sample.p0[1] = 0 /\ sample.p1[1] = 255
    /\ sample.res.out[1] = 127

\* The pixel (x, y) of a buffer of the given width.
Pixel(mem, w, x, y) == [c \in 1..3 |-> mem.bytes[(3 * w) * y + 3 * x + c - 1]]

\* C5 as stated, for destinations of at least 2 x 2 pixels: every pixel a bilinear
\* sample reads lies inside the buffer read, and when the call has returned success
\* the four corners of dst equal the four corners of src.
C5_BorderClamp ==
    /\ sample.res.ok
         => \A n \in 1..2 : /\ sample.res.at[n][1] \in 0..(sample.width - 1)
                            /\ sample.res.at[n][2] \in 0..(sample.height - 1)
    /\ (pc = "returned" /\ ret = TRUE /\ type = "KernelTypeBilinear"
            /\ dst_width >= 2 /\ dst_height >= 2)
         => /\ Pixel(dst, dst_width, 0, 0) = Pixel(src, src_width, 0, 0)
            /\ Pixel(dst, dst_width, dst_width - 1, 0)
                 = Pixel(src, src_width, src_width - 1, 0)
            /\ Pixel(dst, dst_width, 0, dst_height - 1)
                 = Pixel(src, src_width, 0, src_height - 1)
            /\ Pixel(dst, dst_width, dst_width - 1, dst_height - 1)
                 = Pixel(src, src_width, src_width - 1, src_height - 1)

KernelFailed == sample.pass # "none" /\ ~sample.res.ok

\* The number of kernel calls up to and including the sample (i, j) of a pass.
CallsUpTo(pass, si, sj) ==
    (IF pass = "horizontal" THEN 0 ELSE src_height * dst_width) + sj * dst_width + si + 1

\* C8: when a kernel call fails, the function has stopped at that sample and returned
\* failure, *errors (when supplied) names the pass of the failing call, and no kernel
\* call was made after it.
C8_PassFailure ==
    KernelFailed
        => /\ pc = "returned" /\ ret = FALSE
           /\ i = sample.i /\ j = sample.j
           /\ samples = CallsUpTo(sample.pass, sample.i, sample.j)
           /\ errors # NoString
                => errors = (IF sample.pass = "horizontal"
                             THEN "Failure during horizontal resample operation."
                             ELSE "Failure during vertical resample operation.")

C8_Witness ==
    /\ KernelFailed /\ sample.pass = "horizontal"
    /\ pc = "returned" /\ ret = FALSE /\ samples = 1
    /\ errors = "Failure during horizontal resample operation."

(***************************************************************************)
(* Properties of best_match, checked under SpecMatch.                      *)
(***************************************************************************)
\* The distance of the colour queried to the heavy or light colour of the entry at
\* index k (0-based).
Dist(k, heavy) ==
    metric[<<color, IF heavy THEN palette[k + 1].heavy_trace
                    ELSE palette[k + 1].light_trace>>]

\* The place of a candidate in the scan: entries by index, heavy before light.
Rank(k, heavy) == 2 * k + (IF heavy THEN 0 ELSE 1)

\* C6: for a non-empty palette best_match returns the index of an existing entry and
\* a variant whose distance is the distance returned, and no (entry, variant) of the
\* palette is strictly closer.
C6_MatchMinimality ==
    (bm_pc = "done" /\ palette # <<>>)
        => /\ result.index \in 0..(Len(palette) - 1)
           /\ result.distance = Dist(result.index, result.heavy)
           /\ \A k \in 0..(Len(palette) - 1), h \in BOOLEAN :
                ~(Dist(k, h) < result.distance)

C6_Witness ==
    /\ bm_pc = "done" /\ Len(palette) = 2
    /\ result = [index |-> 1, heavy |-> FALSE, distance |-> 0]
    /\ Dist(0, TRUE) = 2 /\ Dist(0, FALSE) = 1 /\ Dist(1, TRUE) = 1

\* C7: at every point of the scan the running result is the first candidate, in scan
\* order, among those scanned that is at the minimum distance: every candidate
\* scanned before it is strictly farther, so a later candidate of equal distance
\* never replaces it.
C7_TieBreak ==
    (bm_pc \in {"scan", "done"} /\ ii > 0)
        => /\ result.index \in 0..(ii - 1)
           /\ \A k \in 0..(ii - 1), h \in BOOLEAN :
                Rank(k, h) < Rank(result.index, result.heavy)
                    => Dist(k, h) > result.distance

C7_Witness ==
    /\ bm_pc = "done" /\ Len(palette) = 2
    /\ result.index = 0 /\ result.heavy
    /\ Dist(0, FALSE) = result.distance
    /\ Dist(1, TRUE) = result.distance
    /\ Dist(1, FALSE) = result.distance

(***************************************************************************)
(* Properties of main, checked under SpecMain.                             *)
(***************************************************************************)
\* A well-formed hexadecimal number: one digit at least, and digits only.
WellFormedHex(token) ==
    /\ token # <<>>
    /\ \A k \in 1..Len(token) :
         token[k] \in {"0", "1", "2", "3", "4", "5", "6", "7", "8", "9",
                       "a", "b", "c", "d", "e", "f", "A", "B", "C", "D", "E", "F"}

\* A line read so far has a heavy or light colour token that is not well-formed.
MalformedLineRead ==
    \E k \in 1..(Len(file) - Len(ifs)) :
        LET t == LineTokens(file[k])
        IN  ~WellFormedHex(t.sheavy) \/ ~WellFormedHex(t.slight)

\* C9: once a palette line with a malformed heavy or light colour token has been
\* read, the error is reported and the process has exited, with no image decoded, no
\* ResampleImage24 call and no best_match call.
C9_MalformedHexIsFatal ==
    MalformedLineRead
        => /\ d_pc = "exited"
           /\ klog # <<>>
           /\ calls = [decode |-> 0, resample |-> 0, best_match |-> 0]

\* C10: when decoding the image failed, neither ResampleImage24 nor best_match is
\* called: the driver does not go on with the image of the failed decode.
C10_FailedDecodeIsFatal ==
    decoded.error # 0
        => /\ calls.resample = 0
           /\ calls.best_match = 0
           /\ d_pc \notin {"resampling", "match", "done"}

(***************************************************************************)
(* Further properties of ResampleImage24, checked under Spec.              *)
(***************************************************************************)
\* The call is on the general path: the ratios have been computed.
RatiosComputed == pc \in {"hpass", "vpass"} \/ (pc = "returned" /\ ~buffer.null)

\* r is the single-precision number nearest to the quotient a / b (b >= 1): it has
\* at most 24 significant bits and is within half a unit in the last place of a / b.
NearestFloat(r, a, b) ==
    IF a = 0 THEN r.m = 0
    ELSE /\ r.m > 0 /\ r.m < 2^24
         /\ LET L == BitLen(r.m)
                u == 24 - L - r.e
                M == r.m * (2^(24 - L))
                D == M * b - a * (2^u)
            IN  /\ u >= 0
                /\ 2 * (IF D < 0 THEN 0 - D ELSE D) <= b

\* The ratio of one axis is 1.0 when the destination extent is 1; otherwise the
\* divisor is not zero and the ratio is the quotient (srcExtent - 1) / (dstExtent - 1).
RatioAsStated(r, srcExtent, dstExtent) ==
    /\ dstExtent = 1 => r = [m |-> 1, e |-> 0]
    /\ dstExtent # 1 => /\ dstExtent - 1 # 0
                        /\ NearestFloat(r, srcExtent - 1, dstExtent - 1)

\* C11: once the ratios are computed, the horizontal ratio is exactly 1.0 when
\* dst_width is 1 and the vertical ratio is exactly 1.0 when dst_height is 1, whatever
\* the source extent; otherwise the divisor is non-zero and the ratio is the
\* (single-precision) quotient (srcExtent - 1) / (dstExtent - 1).
C11_DegenerateRatio ==
    RatiosComputed
        => /\ src_width >= 1 /\ src_height >= 1
           /\ RatioAsStated(h_ratio, src_width, dst_width)
           /\ RatioAsStated(v_ratio, src_height, dst_height)

\* A call that shrinks a source several pixels wide to one column and stretches its
\* height has completed.
C11_Witness ==
    /\ pc = "returned" /\ ret = TRUE /\ ~buffer.null
    /\ dst_width = 1 /\ src_width >= 2
    /\ dst_height >= 2 /\ src_height # dst_height
    /\ h_ratio = [m |-> 1, e |-> 0]

\* The number of kernel calls of a complete horizontal pass.
HCalls == src_height * dst_width

\* The number of kernel calls the vertical pass has made.
VCalls == samples - HCalls

\* The cell of row-major index k of the intermediate buffer has been written.
BufferCellWritten(k) == \A c \in 0..2 : buffer.bytes[3 * k + c] \in 0..255

\* The cell of row-major index k of dst is as it was before the call.
DstCellUntouched(k) ==
    \A c \in 0..2 : dst.bytes[3 * k + c] = Blank(dst_width, dst_height)[3 * k + c]

\* The last kernel call read the buffer of its pass (src in the horizontal pass, the
\* intermediate buffer in the vertical pass), at that buffer's extents, and its output
\* is the blend of the two pixels of that buffer.
SampledOwnBuffer ==
    LET a0 == clip_range(SampleBase, 0, ActiveExtent - 1)
        a1 == clip_range(SampleBase + 1, 0, ActiveExtent - 1)
        o  == clip_range(FTrunc(OrthoCoord), 0, OrthoExtent - 1)
    IN  /\ sample.width = (IF sample.pass = "horizontal" THEN src_width ELSE dst_width)
        /\ sample.height = src_height
        /\ \A c \in 1..3 :
             /\ PixelAt(a0, o)[c] \in 0..255
             /\ PixelAt(a1, o)[c] \in 0..255
             /\ sample.res.out[c] = Lerp(PixelAt(a0, o)[c], PixelAt(a1, o)[c], SampleWeight)

\* C12: on the general path, while the horizontal pass runs its n-th sample has
\* written cell n - 1 (row-major) of the dstW x srcH intermediate buffer from the
\* source, the cells not yet reached are unwritten and dst is untouched; the vertical
\* pass begins only when every cell of the intermediate buffer is written, samples
\* the intermediate buffer only, reads written cells only, and its n-th sample writes
\* cell n - 1 of dst, the cells not yet reached being untouched; a successful return
\* comes after exactly dstW * dstH vertical samples.
C12_TwoPassOrdering ==
    /\ pc = "hpass"
         => /\ samples = j * dst_width + i
            /\ samples > 0 => sample.pass = "horizontal" /\ SampledOwnBuffer
            /\ \A k \in 0..(HCalls - 1) : BufferCellWritten(k) <=> k < samples
            /\ \A k \in 0..(dst_width * dst_height - 1) : DstCellUntouched(k)
    /\ (pc = "vpass" \/ (pc = "returned" /\ ret = TRUE /\ ~buffer.null))
         => /\ \A k \in 0..(HCalls - 1) : BufferCellWritten(k)
            /\ VCalls >= 0
            /\ pc = "vpass" => VCalls = j * dst_width + i
            /\ pc = "returned" => VCalls = dst_width * dst_height
            /\ \A k \in 0..(dst_width * dst_height - 1) : k >= VCalls => DstCellUntouched(k)
            /\ VCalls = 0 => sample.pass = "horizontal"
            /\ VCalls > 0
                 => /\ sample.pass = "vertical" /\ SampledOwnBuffer
                    /\ sample.j * dst_width + sample.i = VCalls - 1
                    /\ Pixel(dst, dst_width, sample.i, sample.j) = sample.res.out

\* A resize that changes both extents of a source of several rows has completed.
C12_Witness ==
    /\ pc = "returned" /\ ret = TRUE /\ ~buffer.null
    /\ src_height >= 2 /\ dst_height >= 2 /\ dst_width >= 2
    /\ src_width # dst_width /\ src_height # dst_height
    /\ samples = HCalls + dst_width * dst_height

\* C13: whenever the call has returned failure, dst is byte for byte as it was
\* before the call, and the failure is either the parameter check (no kernel call
\* made) or the first sample of the horizontal pass; no vertical sample ever fails.
C13_FailureLeavesDst ==
    /\ (pc = "returned" /\ ret = FALSE)
         => /\ DstUntouched
            /\ \/ InvalidParameters /\ samples = 0 /\ buffer.null
               \/ /\ ~InvalidParameters /\ samples = 1
                  /\ sample.pass = "horizontal" /\ sample.i = 0 /\ sample.j = 0
                  /\ ~sample.res.ok
    /\ sample.pass = "vertical" => sample.res.ok
    /\ pc = "vpass" => type = "KernelTypeBilinear"

\* A call with valid buffers and an unimplemented kernel has failed at its first
\* horizontal sample, with a destination of several pixels.
C13_Witness ==
    /\ pc = "returned" /\ ret = FALSE
    /\ ~dst.null /\ ~src.null /\ ~buffer.null
    /\ type = "KernelTypeLanczos3"
    /\ dst_width * dst_height >= 2
    /\ samples = 1 /\ ~sample.res.ok
    /\ dst.bytes = Blank(dst_width, dst_height)

(***************************************************************************)
(* Properties of Examples::insert, checked under SpecExamples.             *)
(***************************************************************************)
\* C14: after any sequence of insert calls all stored examples have the same length,
\* sims_ has that length and sims_[k] is true exactly when every stored example has
\* the same bit at position k, and an insert that returned false left the stored
\* examples and sims_ as they were before it.
C14_ExamplesInvariant ==
    /\ \A a, b \in 1..Len(example_) : Len(example_[a]) = Len(example_[b])
    /\ Len(example_) >= 1
         => /\ Len(sims_) = Len(example_[1])
            /\ \A k \in 1..Len(sims_) :
                 sims_[k] <=> \A a, b \in 1..Len(example_) : example_[a][k] = example_[b][k]
    /\ call.ret = "false" => example_ = call.example /\ sims_ = call.sims
====
